---- MODULE Spec2Model ----
(***************************************************************************)
(* A model of the cvar crate: the Value capability (parse / validate) of   *)
(* bool, String, the integer and non-zero integer types and of enums       *)
(* deriving CVarEnum, and the shared cell CVar = Arc<InnerCVar>, whose     *)
(* value sits behind an RwLock.                                            *)
(*                                                                         *)
(* A text (&str) is a sequence of one-character strings.                   *)
(***************************************************************************)
EXTENDS Integers, Sequences, FiniteSets, TLC

VARIABLES
    ty,        \* the type whose Value impl is called: "bool", "String", "int", "enum"
    int_ty,    \* the integer type $t of impl_value_int (meaningful when ty = "int")
    enum,      \* the enum declaration given to the derive (meaningful when ty = "enum")
    input,     \* the text s handed to parse / validate
    pc,        \* "start", "parsed" or "validated"
    completed, \* whether input is a candidate taken from a validate result
    result,    \* the Result returned (or the panic raised) by the call
    handle,    \* CVar handles: the threads holding one -> the cell its Arc points to
    strong,    \* Arc strong count of every cell
    cell,      \* InnerCVar.value of every cell: the two words of the stored T
    readers,   \* RwLock state: the threads holding a read guard, per cell
    writer,    \* RwLock state: the threads holding the write guard, per cell
    tpc,       \* position of every thread in its read or write
    seen,      \* what a thread has read so far under its read guard
    observed,  \* the set of values readers have observed in full
    written    \* the threads whose write has completed

value_vars == <<ty, int_ty, enum, input, pc, completed, result>>
cvar_vars == <<handle, strong, cell, readers, writer, tpc, seen, observed, written>>
vars == <<ty, int_ty, enum, input, pc, completed, result,
          handle, strong, cell, readers, writer, tpc, seen, observed, written>>

(***************************************************************************)
(* Bounds                                                                  *)
(***************************************************************************)
MaxLen == 4          \* longest enumerated input text
MaxVariants == 2     \* most variants of an enumerated enum declaration
NumThreads == 3      \* threads holding (or receiving) a CVar handle

(***************************************************************************)
(* Texts                                                                   *)
(***************************************************************************)
QUOTE == "\""

UpperChars == <<"A","B","C","D","E","F","G","H","I","J","K","L","M",
                "N","O","P","Q","R","S","T","U","V","W","X","Y","Z">>
LowerChars == <<"a","b","c","d","e","f","g","h","i","j","k","l","m",
                "n","o","p","q","r","s","t","u","v","w","x","y","z">>
DigitChars == <<"0","1","2","3","4","5","6","7","8","9">>

IsUpper(c) == \E i \in DOMAIN UpperChars : UpperChars[i] = c
IsLower(c) == \E i \in DOMAIN LowerChars : LowerChars[i] = c

\* char::to_lowercase on the characters of the model (ASCII)
ToLower(c) ==
    IF IsUpper(c)
    THEN LowerChars[CHOOSE i \in DOMAIN UpperChars : UpperChars[i] = c]
    ELSE c

\* str::to_lowercase
to_lowercase(s) == [i \in 1..Len(s) |-> ToLower(s[i])]

\* str::starts_with / str::ends_with
starts_with(v, s) == Len(s) <= Len(v) /\ SubSeq(v, 1, Len(s)) = s
ends_with(v, s) == Len(s) <= Len(v) /\ SubSeq(v, Len(v) - Len(s) + 1, Len(v)) = s

\* all texts over the characters cs of length at most n
RECURSIVE TextsOfLen(_, _)
TextsOfLen(cs, n) ==
    IF n = 0 THEN {<<>>}
    ELSE {Append(t, c) : t \in TextsOfLen(cs, n - 1), c \in cs}

Texts(cs, n) == UNION {TextsOfLen(cs, k) : k \in 0..n}

(***************************************************************************)
(* Results and errors                                                      *)
(***************************************************************************)
Ok(v) == [kind |-> "Ok", val |-> v]
Panic == [kind |-> "Panic"]
EmptyValue == [kind |-> "EmptyValue"]

invalid_value(value) == [kind |-> "InvalidValue", value |-> value]
too_large(value, min, max) == [kind |-> "TooBig", value |-> value, min |-> min, max |-> max]
too_small(value, min, max) == [kind |-> "TooSmall", value |-> value, min |-> min, max |-> max]

from_parse_int_error_swapped(e, value, min, max) ==
    CASE e = "Empty" -> EmptyValue
      [] e = "InvalidDigit" -> invalid_value(value)
      [] e = "PosOverflow" -> too_small(value, min, max)
      [] e = "NegOverflow" -> too_large(value, min, max)
      [] e = "Zero" -> invalid_value(value)
      [] OTHER -> Panic

from_parse_int_error(e, value, min, max) ==
    CASE e = "Empty" -> EmptyValue
      [] e = "InvalidDigit" -> invalid_value(value)
      [] e = "PosOverflow" -> too_large(value, min, max)
      [] e = "NegOverflow" -> too_small(value, min, max)
      [] e = "Zero" -> invalid_value(value)
      [] OTHER -> Panic

(***************************************************************************)
(* impl Value for bool                                                     *)
(***************************************************************************)
bool_parse_case_sensitive(s) ==
    CASE s = <<"t">> -> Ok(TRUE)
      [] s = <<"f">> -> Ok(FALSE)
      [] s = <<"t","r","u","e">> -> Ok(TRUE)
      [] s = <<"f","a","l","s","e">> -> Ok(FALSE)
      [] s = <<"1">> -> Ok(TRUE)
      [] s = <<"0">> -> Ok(FALSE)
      [] OTHER -> invalid_value(s)

bool_parse(s) ==
    LET l == to_lowercase(s) IN
    CASE l = <<"t">> -> Ok(TRUE)
      [] l = <<"f">> -> Ok(FALSE)
      [] l = <<"t","r","u","e">> -> Ok(TRUE)
      [] l = <<"f","a","l","s","e">> -> Ok(FALSE)
      [] l = <<"1">> -> Ok(TRUE)
      [] l = <<"0">> -> Ok(FALSE)
      [] OTHER -> invalid_value(s)

BOOL_VALUES == << <<"t","r","u","e">>, <<"f","a","l","s","e">> >>

\* the loop `for value in VALUES { if value.starts_with(s) { values.push(..) } }`
\* shared by bool's validate and the derived validate
RECURSIVE push_matching(_, _, _, _)
push_matching(VALUES, s, i, values) ==
    IF i > Len(VALUES) THEN values
    ELSE push_matching(VALUES, s, i + 1,
             IF starts_with(VALUES[i], s) THEN Append(values, VALUES[i]) ELSE values)

bool_validate(s) == Ok(push_matching(BOOL_VALUES, s, 1, <<>>))

(***************************************************************************)
(* impl Value for String                                                   *)
(***************************************************************************)
\* s[1..s.len() - 1]: a range whose start exceeds its end panics
string_slice(s, from, to) ==
    IF from > to \/ to > Len(s) THEN Panic
    ELSE Ok(SubSeq(s, from + 1, to))

String_parse(s) ==
    IF starts_with(s, <<QUOTE>>) /\ ends_with(s, <<QUOTE>>)
    THEN string_slice(s, 1, Len(s) - 1)
    ELSE invalid_value(s)

String_validate(s) ==
    IF starts_with(s, <<QUOTE>>) /\ ends_with(s, <<QUOTE>>)
    THEN Ok(<<>>)
    ELSE invalid_value(s)

(***************************************************************************)
(* Integer types: impl_value_int over u8.., i8.., NonZeroU8.., NonZeroI8.. *)
(* An integer type is its signedness, whether it is a NonZero type, and    *)
(* its width in bits.                                                      *)
(***************************************************************************)
IntTypes == [signed : BOOLEAN, nonzero : BOOLEAN, bits : {8, 16}]

PrimMin(t) == IF t.signed THEN -(2^(t.bits - 1)) ELSE 0
PrimMax(t) == IF t.signed THEN 2^(t.bits - 1) - 1 ELSE 2^(t.bits) - 1

\* <$t>::MIN and <$t>::MAX (NonZeroU*::MIN is 1, NonZeroI*::MIN is i*::MIN)
MIN(t) == IF t.nonzero /\ ~t.signed THEN 1 ELSE PrimMin(t)
MAX(t) == PrimMax(t)

Some(v) == [some |-> TRUE, v |-> v]
None == [some |-> FALSE]

\* checked arithmetic at the width of t
checked(t, v) == IF PrimMin(t) <= v /\ v <= PrimMax(t) THEN Some(v) ELSE None
checked_mul(t, a, b) == checked(t, a * b)
checked_add(t, a, b) == checked(t, a + b)
checked_sub(t, a, b) == checked(t, a - b)

\* char::to_digit(10)
to_digit(c) ==
    IF \E i \in DOMAIN DigitChars : DigitChars[i] = c
    THEN Some((CHOOSE i \in DOMAIN DigitChars : DigitChars[i] = c) - 1)
    ELSE None

IntOk(v) == [ok |-> TRUE, v |-> v]
IntErr(kind) == [ok |-> FALSE, kind |-> kind]

\* the digit loop of the standard library's from_str_radix: at each character
\* the digit is decoded first, then the pending multiplication and the
\* addition (subtraction for a negative number) are checked for overflow
RECURSIVE digit_loop(_, _, _, _, _)
digit_loop(t, digits, i, acc, is_positive) ==
    IF i > Len(digits) THEN IntOk(acc)
    ELSE LET mul == checked_mul(t, acc, 10)
             x == to_digit(digits[i])
             overflow == IF is_positive THEN "PosOverflow" ELSE "NegOverflow"
         IN  IF ~x.some THEN IntErr("InvalidDigit")
             ELSE IF ~mul.some THEN IntErr(overflow)
             ELSE LET r == IF is_positive THEN checked_add(t, mul.v, x.v)
                                          ELSE checked_sub(t, mul.v, x.v)
                  IN  IF ~r.some THEN IntErr(overflow)
                      ELSE digit_loop(t, digits, i + 1, r.v, is_positive)

\* s.parse::<$t>() for a primitive integer type (radix 10)
from_str_radix(t, src) ==
    IF src = <<>> THEN IntErr("Empty")
    ELSE IF src = <<"+">> \/ src = <<"-">> THEN IntErr("InvalidDigit")
    ELSE IF src[1] = "+" THEN digit_loop(t, Tail(src), 1, 0, TRUE)
    ELSE IF src[1] = "-" /\ t.signed THEN digit_loop(t, Tail(src), 1, 0, FALSE)
    ELSE digit_loop(t, src, 1, 0, TRUE)

\* s.parse::<$t>(): a NonZero type parses its primitive and rejects zero
int_from_str(t, src) ==
    LET r == from_str_radix(t, src) IN
    IF t.nonzero /\ r.ok /\ r.v = 0 THEN IntErr("Zero") ELSE r

\* i64::to_string: the decimal digits, most significant first
RECURSIVE nat_to_string(_)
nat_to_string(n) ==
    IF n < 10 THEN <<DigitChars[n + 1]>>
    ELSE Append(nat_to_string(n \div 10), DigitChars[(n % 10) + 1])

to_string(n) == IF n < 0 THEN <<"-">> \o nat_to_string(-n) ELSE nat_to_string(n)

int_parse(t, s) ==
    LET r == int_from_str(t, s) IN
    IF r.ok THEN Ok(r.v)
    ELSE from_parse_int_error(r.kind, s, to_string(MIN(t)), to_string(MAX(t)))

int_validate(t, s) ==
    LET r == int_from_str(t, s) IN
    IF r.ok THEN Ok(<<>>)
    ELSE from_parse_int_error(r.kind, s, to_string(MIN(t)), to_string(MAX(t)))

(***************************************************************************)
(* #[derive(CVarEnum)]                                                     *)
(* An enum declaration is the sequence of its variants, each the variant's *)
(* identifier and the literals of its #[cvar(alias = "..")] attributes.    *)
(***************************************************************************)
Variant(ident, aliases) == [ident |-> ident, aliases |-> aliases]

\* convert_case's word boundary before s[i]: lower|Upper, and the last
\* capital of an acronym before a lowercase letter (ABc -> A|Bc)
is_boundary(s, i) ==
    /\ i >= 2
    /\ \/ IsLower(s[i - 1]) /\ IsUpper(s[i])
       \/ IsUpper(s[i - 1]) /\ IsUpper(s[i]) /\ i + 1 <= Len(s) /\ IsLower(s[i + 1])

push_word(words, cur) == IF cur = <<>> THEN words ELSE Append(words, cur)

\* split a name into words: an underscore ends a word and is dropped, a
\* boundary starts a new word, empty words are dropped
RECURSIVE split_words(_, _, _, _)
split_words(s, i, cur, words) ==
    IF i > Len(s) THEN push_word(words, cur)
    ELSE IF s[i] = "_" THEN split_words(s, i + 1, <<>>, push_word(words, cur))
    ELSE IF is_boundary(s, i) THEN split_words(s, i + 1, <<s[i]>>, push_word(words, cur))
    ELSE split_words(s, i + 1, Append(cur, s[i]), words)

RECURSIVE join_words(_, _)
join_words(words, i) ==
    IF i > Len(words) THEN <<>>
    ELSE IF i = Len(words) THEN to_lowercase(words[i])
    ELSE to_lowercase(words[i]) \o <<"_">> \o join_words(words, i + 1)

\* name.to_case(convert_case::Case::Snake)
to_case_snake(name) == join_words(split_words(name, 1, <<>>, <<>>), 1)

\* the (ident, name) pairs of one variant: its identifier, then its aliases
variant_names(v) ==
    <<[ident |-> v.ident, name |-> v.ident]>>
        \o [i \in 1..Len(v.aliases) |-> [ident |-> v.ident, name |-> v.aliases[i]]]

RECURSIVE flat_map_variants(_, _)
flat_map_variants(variants, i) ==
    IF i > Len(variants) THEN <<>>
    ELSE variant_names(variants[i]) \o flat_map_variants(variants, i + 1)

raw_table(variants) == flat_map_variants(variants, 1)

\* the table of c_var_enum: every pair with its name in snake case
c_var_enum(variants) ==
    LET pairs == flat_map_variants(variants, 1) IN
    [i \in 1..Len(pairs) |-> [ident |-> pairs[i].ident, name |-> to_case_snake(pairs[i].name)]]

\* the unzip of the table
idents(variants) == LET tb == c_var_enum(variants) IN [i \in 1..Len(tb) |-> tb[i].ident]
names(variants) == LET tb == c_var_enum(variants) IN [i \in 1..Len(tb) |-> tb[i].name]

\* the arms with the "" arm ahead of the table's
match_arms_empty_first(tb, s) ==
    IF s = <<>> THEN EmptyValue
    ELSE IF \E i \in 1..Len(tb) : tb[i].name = s
    THEN LET first == CHOOSE i \in 1..Len(tb) :
                          /\ tb[i].name = s
                          /\ \A j \in 1..(i - 1) : tb[j].name # s
         IN  Ok(tb[first].ident)
    ELSE invalid_value(s)

\* the generated match: the arms of the table in order, then "", then _
match_arms(tb, s) ==
    IF \E i \in 1..Len(tb) : tb[i].name = s
    THEN LET first == CHOOSE i \in 1..Len(tb) :
                          /\ tb[i].name = s
                          /\ \A j \in 1..(i - 1) : tb[j].name # s
         IN  Ok(tb[first].ident)
    ELSE IF s = <<>> THEN EmptyValue
    ELSE invalid_value(s)

enum_parse_raw_names(variants, s) == match_arms(raw_table(variants), s)

enum_parse(variants, s) == match_arms(c_var_enum(variants), s)

RECURSIVE reverse(_)
reverse(q) == IF q = <<>> THEN <<>> ELSE Append(reverse(Tail(q)), Head(q))

enum_validate_reversed(variants, s) == Ok(reverse(push_matching(names(variants), s, 1, <<>>)))

enum_validate(variants, s) == Ok(push_matching(names(variants), s, 1, <<>>))

(***************************************************************************)
(* The inputs                                                              *)
(***************************************************************************)
\* enum GameModes of tests/derive.rs
GameModes ==
    << Variant(<<"C","a","p","t","u","r","e","T","h","e","F","l","a","g">>, <<<<"c","t","f">>>>),
       Variant(<<"T","e","a","m","D","e","a","t","h","M","a","t","c","h">>, <<<<"t","d","m">>>>),
       Variant(<<"F","r","e","e","F","o","r","A","l","l">>, <<<<"f","f","a">>>>),
       Variant(<<"C","o","n","t","r","o","l","P","o","i","n","t">>, <<<<"c","p">>>>) >>

GameModesTexts ==
    { <<>>, <<"c">>, <<"t">>, <<"f">>, <<"z">>, <<"c","t","f">>, <<"c","p">>,
      <<"C","a","p","t","u","r","e","T","h","e","F","l","a","g">>,
      <<"c","a","p","t","u","r","e","_","t","h","e","_","f","l","a","g">>,
      <<"c","o","n","t","r","o","l","_","p","o","i","n","t">>,
      <<"c","a","p">>, <<"c","t">> }

IdentPool == { <<"A">>, <<"a">>, <<"A","B">>, <<"a","B">> }

AliasLists ==
    { <<>>,
      << <<"a">> >>,
      << <<>> >>,
      << <<"a","_","b">> >>,
      << <<"A","B">>, <<"b">> >> }

VariantPool == {Variant(i, a) : i \in IdentPool, a \in AliasLists}

\* declarations of n variants with pairwise distinct identifiers
RECURSIVE EnumsOfLen(_)
EnumsOfLen(n) ==
    IF n = 0 THEN {<<>>}
    ELSE LET longer == {<<e, v>> \in EnumsOfLen(n - 1) \X VariantPool :
                            \A i \in 1..Len(e) : e[i].ident # v.ident}
         IN  {Append(p[1], p[2]) : p \in longer}

Enums == (UNION {EnumsOfLen(n) : n \in 1..MaxVariants}) \cup {GameModes}

EnumTexts ==
    Texts({"a", "b", "_"}, 2) \cup
    { <<"a","_","b">>, <<"A">>, <<"A","B">>, <<"a","B">>, <<"z","z","z">> }

BoolTexts ==
    Texts({"t", "T", "f", "1", "0", "y"}, MaxLen) \cup
    { <<"t","r","u","e">>, <<"T","R","U","E">>, <<"T","r","u","e">>,
      <<"f","a","l","s","e">>, <<"F","A","L","S","E">>, <<"f","a","l","s","E">>,
      <<"F">>, <<"y","e","s">>, <<"t","r","u">>, <<"f","a","l","s","e","e">>,
      <<"t","r">>, <<"f","a">>, <<"t","r","u","e","e">> }

StringTexts ==
    Texts({QUOTE, "a", "b"}, MaxLen) \cup
    { <<QUOTE,"a","b","c",QUOTE>>, <<"a","b","c">> }

\* the numerals at the edges of an integer type, and every numeral of an
\* 8-bit type
EdgeValues(t) ==
    { PrimMin(t) - 1, PrimMin(t), PrimMin(t) + 1, -1, 0, 1,
      PrimMax(t) - 1, PrimMax(t), PrimMax(t) + 1, 10 * PrimMax(t), 10 * PrimMin(t) - 1 }
        \cup (IF t.bits = 8 THEN PrimMin(t)..PrimMax(t) ELSE {})

IntTexts(t) ==
    Texts({"0", "1", "9", "-", "+", "a"}, MaxLen)
        \cup {to_string(v) : v \in EdgeValues(t)}
        \cup {to_string(v) \o <<"a">> : v \in EdgeValues(t)}
        \cup {<<"+">> \o to_string(v) : v \in {0, PrimMax(t), PrimMax(t) + 1}}
        \cup {<<"0", "0">> \o to_string(v) : v \in {0, PrimMax(t), PrimMax(t) + 1}}

NoEnum == <<>>
NoIntType == [signed |-> FALSE, nonzero |-> FALSE, bits |-> 0]
NoResult == [kind |-> "None"]

Inputs(type, t, e) ==
    CASE type = "bool" -> BoolTexts
      [] type = "String" -> StringTexts
      [] type = "int" -> IntTexts(t)
      [] type = "enum" -> IF e = GameModes THEN GameModesTexts ELSE EnumTexts

(***************************************************************************)
(* The calls: one Value call on one input text, and the completion of a    *)
(* prefix by a candidate that validate returned.                           *)
(***************************************************************************)
ValueInit ==
    /\ ty \in {"bool", "String", "int", "enum"}
    /\ int_ty \in (IF ty = "int" THEN IntTypes ELSE {NoIntType})
    /\ enum \in (IF ty = "enum" THEN Enums ELSE {NoEnum})
    /\ input \in Inputs(ty, int_ty, enum)
    /\ pc = "start"
    /\ completed = FALSE
    /\ result = NoResult

parse(type, t, e, s) ==
    CASE type = "bool" -> bool_parse(s)
      [] type = "String" -> String_parse(s)
      [] type = "int" -> int_parse(t, s)
      [] type = "enum" -> enum_parse(e, s)

validate(type, t, e, s) ==
    CASE type = "bool" -> bool_validate(s)
      [] type = "String" -> String_validate(s)
      [] type = "int" -> int_validate(t, s)
      [] type = "enum" -> enum_validate(e, s)

\* T::parse(input)
Parse ==
    /\ pc = "start"
    /\ result' = parse(ty, int_ty, enum, input)
    /\ pc' = "parsed"
    /\ UNCHANGED <<ty, int_ty, enum, input, completed>>

\* T::validate(input)
Validate ==
    /\ pc = "start"
    /\ ~completed
    /\ result' = validate(ty, int_ty, enum, input)
    /\ pc' = "validated"
    /\ UNCHANGED <<ty, int_ty, enum, input, completed>>

\* the caller replaces the prefix by one of the candidates validate returned
Complete ==
    /\ pc = "validated"
    /\ result.kind = "Ok"
    /\ \E j \in 1..Len(result.val) : input' = result.val[j]
    /\ pc' = "start"
    /\ completed' = TRUE
    /\ result' = NoResult
    /\ UNCHANGED <<ty, int_ty, enum>>


(***************************************************************************)
(* CVar<T>: a handle is an Arc to an InnerCVar, whose value is an          *)
(* RwLock<T>.  The stored T is two words, so that a write and a read each  *)
(* take two steps and a torn value <<a, b>>, a # b, can be told from a     *)
(* written one.  Thread t writes the value <<t, t>>.                       *)
(***************************************************************************)
Threads == 1..NumThreads
Cells == 1..NumThreads

InitialValue == <<0, 0>>
Val(t) == <<t, t>>

\* the lock modes of std::sync::RwLock
can_read_unlocked(c) == TRUE

can_read(c) == writer[c] = {}

can_write(c) == writer[c] = {} /\ readers[c] = {}

\* a clone that allocates a cell of its own and copies the value into it
clone_deep(c) ==
    LET fresh == CHOOSE d \in Cells : strong[d] = 0 IN
    [to |-> fresh, value |-> cell[c]]

\* #[derive(Clone)] on CVar(Arc<InnerCVar<T>>): Arc::clone, the same cell
clone(c) == [to |-> c, value |-> cell[c]]

CVarInit ==
    /\ handle = (1 :> 1)
    /\ strong = [c \in Cells |-> IF c = 1 THEN 1 ELSE 0]
    /\ cell = [c \in Cells |-> InitialValue]
    /\ readers = [c \in Cells |-> {}]
    /\ writer = [c \in Cells |-> {}]
    /\ tpc = [t \in Threads |-> "idle"]
    /\ seen = [t \in Threads |-> InitialValue]
    /\ observed = {}
    /\ written = {}

\* duplicate(handle): thread t clones its handle for thread u
Clone(t, u) ==
    /\ t \in DOMAIN handle
    /\ u \notin DOMAIN handle
    /\ LET r == clone(handle[t]) IN
        /\ handle' = handle @@ (u :> r.to)
        /\ strong' = [strong EXCEPT ![r.to] = @ + 1]
        /\ cell' = [cell EXCEPT ![r.to] = r.value]
    /\ UNCHANGED <<readers, writer, tpc, seen, observed, written>>

\* value.write(): blocks until the lock is free
WriteLock(t) ==
    /\ t \in DOMAIN handle
    /\ tpc[t] = "idle"
    /\ t \notin written
    /\ can_write(handle[t])
    /\ writer' = [writer EXCEPT ![handle[t]] = @ \cup {t}]
    /\ tpc' = [tpc EXCEPT ![t] = "w_lo"]
    /\ UNCHANGED <<handle, strong, cell, readers, seen, observed, written>>

\* *guard = v, first word
WriteLo(t) ==
    /\ tpc[t] = "w_lo"
    /\ cell' = [cell EXCEPT ![handle[t]] = <<Val(t)[1], @[2]>>]
    /\ tpc' = [tpc EXCEPT ![t] = "w_hi"]
    /\ UNCHANGED <<handle, strong, readers, writer, seen, observed, written>>

\* *guard = v, second word; the write guard is dropped
WriteHi(t) ==
    /\ tpc[t] = "w_hi"
    /\ cell' = [cell EXCEPT ![handle[t]] = <<@[1], Val(t)[2]>>]
    /\ writer' = [writer EXCEPT ![handle[t]] = @ \ {t}]
    /\ written' = written \cup {t}
    /\ tpc' = [tpc EXCEPT ![t] = "idle"]
    /\ UNCHANGED <<handle, strong, readers, seen, observed>>

\* value.read(): blocks while a writer holds the lock
ReadLock(t) ==
    /\ t \in DOMAIN handle
    /\ tpc[t] = "idle"
    /\ can_read(handle[t])
    /\ readers' = [readers EXCEPT ![handle[t]] = @ \cup {t}]
    /\ tpc' = [tpc EXCEPT ![t] = "r_lo"]
    /\ UNCHANGED <<handle, strong, cell, writer, seen, observed, written>>

\* copy out of the read guard, first word
ReadLo(t) ==
    /\ tpc[t] = "r_lo"
    /\ seen' = [seen EXCEPT ![t] = <<cell[handle[t]][1], InitialValue[2]>>]
    /\ tpc' = [tpc EXCEPT ![t] = "r_hi"]
    /\ UNCHANGED <<handle, strong, cell, readers, writer, observed, written>>

\* copy out of the read guard, second word; the read guard is dropped
ReadHi(t) ==
    /\ tpc[t] = "r_hi"
    /\ observed' = observed \cup {<<seen[t][1], cell[handle[t]][2]>>}
    /\ seen' = [seen EXCEPT ![t] = InitialValue]
    /\ readers' = [readers EXCEPT ![handle[t]] = @ \ {t}]
    /\ tpc' = [tpc EXCEPT ![t] = "idle"]
    /\ UNCHANGED <<handle, strong, cell, writer, written>>

(***************************************************************************)
(* Specifications                                                          *)
(***************************************************************************)
ValueIdle ==
    /\ ty = "bool"
    /\ int_ty = NoIntType
    /\ enum = NoEnum
    /\ input = <<>>
    /\ pc = "start"
    /\ completed = FALSE
    /\ result = NoResult

\* the Value calls
Init == ValueInit /\ CVarInit

Next ==
    \/ Parse /\ UNCHANGED cvar_vars
    \/ Validate /\ UNCHANGED cvar_vars
    \/ Complete /\ UNCHANGED cvar_vars

Spec == Init /\ [][Next]_vars

\* the threads sharing one cvar
CVarSpecInit == ValueIdle /\ CVarInit

CVarNext ==
    \/ \E t, u \in Threads : Clone(t, u) /\ UNCHANGED value_vars
    \/ \E t \in Threads : WriteLock(t) /\ UNCHANGED value_vars
    \/ \E t \in Threads : WriteLo(t) /\ UNCHANGED value_vars
    \/ \E t \in Threads : WriteHi(t) /\ UNCHANGED value_vars
    \/ \E t \in Threads : ReadLock(t) /\ UNCHANGED value_vars
    \/ \E t \in Threads : ReadLo(t) /\ UNCHANGED value_vars
    \/ \E t \in Threads : ReadHi(t) /\ UNCHANGED value_vars

CVarSpec == CVarSpecInit /\ [][CVarNext]_vars


(***************************************************************************)
(* Properties                                                              *)
(***************************************************************************)
IsDigit(c) == \E i \in DOMAIN DigitChars : DigitChars[i] = c
DigitOf(c) == (CHOOSE i \in DOMAIN DigitChars : DigitChars[i] = c) - 1

\* the number a sequence of digits denotes
RECURSIVE NatValue(_)
NatValue(q) ==
    IF q = <<>> THEN 0
    ELSE 10 * NatValue(SubSeq(q, 1, Len(q) - 1)) + DigitOf(q[Len(q)])

HasSign(t, s) == s # <<>> /\ (s[1] = "+" \/ (s[1] = "-" /\ t.signed))
Digits(t, s) == IF HasSign(t, s) THEN Tail(s) ELSE s
Sign(t, s) == IF s # <<>> /\ s[1] = "-" /\ t.signed THEN -1 ELSE 1

\* a decimal numeral of type t: an optional sign (a minus only on a signed
\* type) and at least one digit, nothing else
IsNumeral(t, s) ==
    /\ Digits(t, s) # <<>>
    /\ \A i \in 1..Len(Digits(t, s)) : IsDigit(Digits(t, s)[i])

Denoted(t, s) == Sign(t, s) * NatValue(Digits(t, s))

\* the digits before the first character that is no digit
LeadingDigits(q) ==
    LET n == CHOOSE k \in 0..Len(q) :
                 /\ \A i \in 1..k : IsDigit(q[i])
                 /\ k < Len(q) => ~IsDigit(q[k + 1])
    IN  SubSeq(q, 1, n)

LeadingValue(t, s) == Sign(t, s) * NatValue(LeadingDigits(Digits(t, s)))

MinText(t) == to_string(MIN(t))
MaxText(t) == to_string(MAX(t))

IsQuoted(s) == Len(s) >= 1 /\ s[1] = QUOTE /\ s[Len(s)] = QUOTE

TRUE_TEXT == <<"t","r","u","e">>
FALSE_TEXT == <<"f","a","l","s","e">>
Returned == result.kind \in {"Ok", "InvalidValue", "EmptyValue", "TooBig", "TooSmall"}
IsOk(v) == result.kind = "Ok" /\ result.val = v
IsInvalidValue(s) == result.kind = "InvalidValue" /\ result.value = s
IsEmptyValue == result.kind = "EmptyValue"
IsTooBig(s, min, max) ==
    result.kind = "TooBig" /\ result.value = s /\ result.min = min /\ result.max = max
IsTooSmall(s, min, max) ==
    result.kind = "TooSmall" /\ result.value = s /\ result.min = min /\ result.max = max

\* C1: bool parse(s) is Ok(true) when the lowercased s is "t", "true" or "1",
\* Ok(false) when it is "f", "false" or "0", and otherwise InvalidValue
\* carrying s in its original case.
C1_BoolParse ==
    (ty = "bool" /\ pc = "parsed") =>
        LET l == [i \in 1..Len(input) |-> ToLower(input[i])] IN
        IF l \in {<<"t">>, TRUE_TEXT, <<"1">>} THEN IsOk(TRUE)
        ELSE IF l \in {<<"f">>, FALSE_TEXT, <<"0">>} THEN IsOk(FALSE)
        ELSE IsInvalidValue(input)

C1_Witness ==
    /\ ty = "bool" /\ pc = "parsed"
    /\ input = <<"T","R","U","E">>
    /\ IsOk(TRUE)

\* C2: bool parse("") returns EmptyValue, and the unrecognised text "yes"
\* returns InvalidValue.
C2_BoolParseEmpty ==
    (ty = "bool" /\ pc = "parsed") =>
        /\ input = <<>> => IsEmptyValue
        /\ input = <<"y","e","s">> => result.kind = "InvalidValue"

\* C3: parse and validate of bool, String and the integer types return Ok
\* or an Error on every input text; none of them panics.
C3_NeverPanics ==
    (ty \in {"bool", "String", "int"} /\ pc \in {"parsed", "validated"}) => Returned

\* C4: String parse(s) is Ok(s without its first and last character) exactly
\* when s has a double quote on both ends, and InvalidValue carrying s
\* otherwise; validate makes the same check and returns Ok with no candidate.
C4_StringParse ==
    /\ (ty = "String" /\ pc = "parsed") =>
          IF IsQuoted(input) THEN IsOk(SubSeq(input, 2, Len(input) - 1))
          ELSE IsInvalidValue(input)
    /\ (ty = "String" /\ pc = "validated") =>
          IF IsQuoted(input) THEN IsOk(<<>>)
          ELSE IsInvalidValue(input)

\* the outcomes of an integer parse that C5 as stated and C5 as amended share
IntParseCommon ==
    /\ input = <<>> => IsEmptyValue
    /\ IsNumeral(int_ty, input) =>
          LET v == Denoted(int_ty, input) IN
          IF int_ty.nonzero /\ v = 0 THEN IsInvalidValue(input)
          ELSE IF v > MAX(int_ty) THEN IsTooBig(input, MinText(int_ty), MaxText(int_ty))
          ELSE IF v < PrimMin(int_ty) THEN IsTooSmall(input, MinText(int_ty), MaxText(int_ty))
          ELSE IsOk(v)
    /\ \A v \in EdgeValues(int_ty) \cap (MIN(int_ty)..MAX(int_ty)) :
          (input = to_string(v) /\ ~(int_ty.nonzero /\ v = 0)) => IsOk(v)

\* C5 as stated: an integer parse(s) is Ok(v) for a numeral within MIN..MAX
\* (parse(str(v)) = v), TooBig above MAX, TooSmall below MIN, EmptyValue for
\* the empty text, and InvalidValue for every text with a malformed digit or
\* a zero on a non-zero type; TooBig and TooSmall carry s and the texts of
\* the type's MIN and MAX.
C5_IntParseAsStated ==
    (ty = "int" /\ pc = "parsed") =>
        /\ IntParseCommon
        /\ (input # <<>> /\ ~IsNumeral(int_ty, input)) => IsInvalidValue(input)

\* C5 as amended: as stated, except that a text with a malformed character
\* is InvalidValue only when the digits before its first malformed character
\* are within the type's range; when they already exceed MAX the result is
\* TooBig, and when they are already below MIN, TooSmall.
C5_IntParse ==
    (ty = "int" /\ pc = "parsed") =>
        /\ IntParseCommon
        /\ (input # <<>> /\ ~IsNumeral(int_ty, input)) =>
              LET v == LeadingValue(int_ty, input) IN
              IF v > MAX(int_ty) THEN IsTooBig(input, MinText(int_ty), MaxText(int_ty))
              ELSE IF v < PrimMin(int_ty)
                   THEN IsTooSmall(input, MinText(int_ty), MaxText(int_ty))
              ELSE IsInvalidValue(input)

C5_Witness ==
    /\ ty = "int" /\ pc = "parsed"
    /\ int_ty = [signed |-> FALSE, nonzero |-> FALSE, bits |-> 8]
    /\ input = <<"9","9","9","a">>
    /\ IsTooBig(input, <<"0">>, <<"2","5","5">>)

\* the canonical names of a variant: its identifier and its aliases in snake case
CanonicalNames(v) ==
    {to_case_snake(v.ident)} \cup {to_case_snake(v.aliases[i]) : i \in 1..Len(v.aliases)}

Matching(e, s) == {i \in 1..Len(e) : s \in CanonicalNames(e[i])}

\* C6 as stated: the derived parse(s) is Ok(v) exactly when s equals the
\* canonical name of v's identifier or of one of v's aliases, EmptyValue
\* when s is empty, and InvalidValue carrying s for every other s.
C6_EnumParseAsStated ==
    (ty = "enum" /\ pc = "parsed") =>
        /\ \A i \in 1..Len(enum) : IsOk(enum[i].ident) <=> i \in Matching(enum, input)
        /\ input = <<>> => IsEmptyValue
        /\ (input # <<>> /\ Matching(enum, input) = {}) => IsInvalidValue(input)

\* C6 as amended: the derived parse(s) is Ok(v) exactly when v is the first
\* variant, in declaration order, one of whose canonical names equals s;
\* when no canonical name equals s it is EmptyValue for the empty s and
\* InvalidValue carrying s for every other s.
C6_EnumParse ==
    (ty = "enum" /\ pc = "parsed") =>
        LET m == Matching(enum, input) IN
        /\ \A i \in 1..Len(enum) :
              IsOk(enum[i].ident) <=> (i \in m /\ \A j \in m : i <= j)
        /\ (input = <<>> /\ m = {}) => IsEmptyValue
        /\ (input # <<>> /\ m = {}) => IsInvalidValue(input)

C6_Witness ==
    /\ ty = "enum" /\ pc = "parsed"
    /\ enum = << Variant(<<"a","B">>, <<>>), Variant(<<"A">>, << <<"a","_","b">> >>) >>
    /\ input = <<"a","_","b">>
    /\ IsOk(<<"a","B">>)

\* the names a derive is to offer, in order: variant by variant, the
\* identifier's canonical name and then the aliases'
RECURSIVE ExpectedNames(_)
ExpectedNames(e) ==
    IF e = <<>> THEN <<>>
    ELSE <<to_case_snake(Head(e).ident)>>
             \o [i \in 1..Len(Head(e).aliases) |-> to_case_snake(Head(e).aliases[i])]
             \o ExpectedNames(Tail(e))

IsPrefix(p, n) == \E k \in 0..Len(n) : SubSeq(n, 1, k) = p

Candidates(tb, p) == LET Keep(n) == IsPrefix(p, n) IN SelectSeq(tb, Keep)

\* C7: validate(prefix) of bool and of a derived enum never fails and
\* returns the names of the table that start with prefix, once per table
\* entry and in table order: "true", "false" for bool; for an enum the
\* variants in declaration order, each with its own name and then its
\* aliases.  validate("c") on GameModes is capture_the_flag, ctf,
\* control_point, cp.
C7_ValidateCandidates ==
    /\ (ty = "bool" /\ pc = "validated") =>
          IsOk(Candidates(<<TRUE_TEXT, FALSE_TEXT>>, input))
    /\ (ty = "enum" /\ pc = "validated") =>
          IsOk(Candidates(ExpectedNames(enum), input))
    /\ (ty = "enum" /\ pc = "validated" /\ enum = GameModes /\ input = <<"c">>) =>
          IsOk(<< <<"c","a","p","t","u","r","e","_","t","h","e","_","f","l","a","g">>,
                  <<"c","t","f">>,
                  <<"c","o","n","t","r","o","l","_","p","o","i","n","t">>,
                  <<"c","p">> >>)

C7_Witness ==
    /\ ty = "enum" /\ pc = "validated"
    /\ enum = GameModes
    /\ input = <<"c">>
    /\ Len(result.val) = 4

\* C10: every candidate validate returns, for bool and for a derived enum,
\* is accepted by parse; when the canonical names of the enum are pairwise
\* distinct, parse returns the variant of the table entry with that name.
C10_CandidatesParse ==
    (ty \in {"bool", "enum"} /\ pc = "parsed" /\ completed) =>
        /\ result.kind = "Ok"
        /\ ty = "enum" =>
              LET tb == ExpectedNames(enum) IN
              (\A i, j \in 1..Len(tb) : tb[i] = tb[j] => i = j) =>
                  \A i \in 1..Len(enum) :
                      input \in CanonicalNames(enum[i]) => result.val = enum[i].ident

C10_Witness ==
    /\ ty = "enum" /\ pc = "parsed" /\ completed
    /\ enum = << Variant(<<"a","B">>, << <<"A","B">>, <<"b">> >>), Variant(<<"A">>, << <<>> >>) >>
    /\ input = <<>>
    /\ IsOk(<<"A">>)

\* C8: under every interleaving of the writing and the reading threads of
\* one cvar, a cell no write is in progress on holds the initial value
\* before any write has completed and afterwards one of the values written,
\* and every value a reader observes is the initial value or a value some
\* thread writes, never a mixture.
C8_NoTornValue ==
    /\ \A c \in Cells :
          (strong[c] > 0 /\ writer[c] = {}) =>
              IF written = {} THEN cell[c] = InitialValue
              ELSE cell[c] \in {Val(w) : w \in written}
    /\ observed \subseteq {InitialValue} \cup {Val(w) : w \in Threads}

C8_Witness ==
    /\ written = Threads
    /\ \A t \in Threads : tpc[t] = "idle"
    /\ Cardinality(observed) >= 3
    /\ cell[1] \in {Val(w) : w \in Threads}

\* C9: all handles derived from one cvar read the same current value: a
\* write through a duplicate is visible through the original and through
\* every other duplicate.
C9_SharedCell ==
    \A t, u \in DOMAIN handle :
        /\ cell[handle[t]] = cell[handle[u]]
        /\ (t \in written /\ tpc[t] = "idle" /\ writer[handle[t]] = {}) =>
              \E w \in written : cell[handle[u]] = Val(w)

C9_Witness ==
    /\ DOMAIN handle = Threads
    /\ written = {2}
    /\ cell[handle[1]] = Val(2)
    /\ cell[handle[3]] = Val(2)

====
